---- MODULE Spec2Model ----
(***************************************************************************)
(* Model of the FRI-style low-degree test of frida/src/lib.rs: the prover  *)
(* (Prover::new, commit_phase, sample), the layer and opening types        *)
(* (InterpolateValue, QueryResult, IoppCommits) and Verifier::verify.      *)
(*                                                                         *)
(* Vectors (Rust Vec) are functions over 0..len-1, so that every index     *)
(* expression reads as in the source.  Index lists (Vec<usize>) that the   *)
(* code sorts and iterates are sequences.  HashMap<usize, Fr> is a         *)
(* function whose DOMAIN is the key set.                                   *)
(*                                                                         *)
(* The scalar field ark_bn254::Fr is scaled down to the prime field of     *)
(* order P = 257 (two-adicity 8), which keeps every identity of a prime    *)
(* field of odd characteristic with radix-2 subgroups.                     *)
(***************************************************************************)
EXTENDS Integers, Sequences, FiniteSets, TLC

\* ------------------------------------------------------------------ bounds

\* log2 of the polynomial length ranges over 1..MaxLogDegree
MaxLogDegree == 3
\* the number of batched polynomials ranges over 1..MaxPolyNum
MaxPolyNum == 2
\* the index reduction is also compared on every pair of indices in
\* 0..MaxPairIndex
MaxPairIndex == 40
\* the largest number of polynomials in the batching runs
BatchMaxPolyNum == 4
\* the largest number of calls of sample on one prover state
MaxSampleCalls == 2

\* log2 of the blow-up factor of the base domain (coderate of the test)
Coderates == {0, 1}
\* the seeds of the input polynomials; seed 0 gives zero polynomials
PolySeeds == {0, 1, 2, 3}
\* the seeds of the challenges; seed 0 gives the challenges 0 and 1
ChallengeSeeds == {0, 1, 2, 3}
\* the sampled index lists: empty, single, duplicated, aliasing modulo a
\* half domain, beyond the domain size, and five indices in [0, 16)
IndexLists ==
    {<<>>, <<0>>, <<7, 7>>, <<5, 13>>, <<6, 2>>, <<3, 19, 35>>, <<100, 41>>,
     <<8, 1, 8>>, <<15, 2, 9, 4, 12>>, <<1, 6, 11, 0, 14>>, <<3, 7, 10, 13, 5>>,
     <<31, 16, 47, 64>>, <<12, 4, 0, 8>>, <<255, 256, 1023>>, <<9, 9, 1, 17, 25, 33>>,
     <<0, 1, 2, 3, 4, 5, 6, 7>>}

\* ------------------------------------------------------- field arithmetic

\* order of the (scaled-down) scalar field
P == 257
\* size_of::<Fr>() for ark_bn254::Fr (four 64-bit limbs)
FrSize == 32
\* byte length of one Merkle root, [u8; 32]
HashSize == 32

Fr == 0..(P - 1)

FAdd(a, b) == (a + b) % P
FSub(a, b) == (a + P - b) % P
FMul(a, b) == (a * b) % P
FDouble(a) == (a + a) % P

RECURSIVE FPow(_, _)
FPow(a, e) ==
    IF e = 0 THEN 1
    ELSE IF e % 2 = 0 THEN FPow(FMul(a, a), e \div 2)
    ELSE FMul(a, FPow(FMul(a, a), e \div 2))

\* Field::inverse: None for zero, otherwise the multiplicative inverse
FInverse(a) == FPow(a, P - 2)

\* ------------------------------------------------------- integer helpers

RECURSIVE Pow2(_)
Pow2(k) == IF k = 0 THEN 1 ELSE 2 * Pow2(k - 1)

\* usize::ilog2
RECURSIVE ilog2(_)
ilog2(n) == IF n <= 1 THEN 0 ELSE 1 + ilog2(n \div 2)

\* the & of two usize values
RECURSIVE BitAnd(_, _)
BitAnd(a, b) ==
    IF a = 0 \/ b = 0 THEN 0
    ELSE (a % 2) * (b % 2) + 2 * BitAnd(a \div 2, b \div 2)

VLen(v) == Cardinality(DOMAIN v)

\* Vec::sort on Vec<usize> (insertion into a sorted prefix)
RECURSIVE SortInsert(_, _)
SortInsert(s, x) ==
    IF s = <<>> THEN <<x>>
    ELSE IF x < Head(s) THEN <<x>> \o s
    ELSE <<Head(s)>> \o SortInsert(Tail(s), x)

RECURSIVE Sort(_)
Sort(s) == IF s = <<>> THEN <<>> ELSE SortInsert(Sort(Tail(s)), Head(s))

\* Vec::dedup: removes consecutive repeated elements
RECURSIVE Dedup(_)
Dedup(s) ==
    IF Len(s) <= 1 THEN s
    ELSE IF s[1] = s[2] THEN Dedup(Tail(s))
    ELSE <<s[1]>> \o Dedup(Tail(s))

\* leaf_indices.sort(); leaf_indices.dedup();
SortDedup(s) == Dedup(Sort(s))

\* ------------------------------------------- util::mul_group::Radix2Group

\* a generator of the multiplicative group of the field
Generator == 3
\* the largest k with 2^k dividing P - 1
TwoAdicity == 8

\* Radix2Group::new(log_size): the subgroup of order 2^log_size
Radix2Group(log_size) ==
    [size |-> Pow2(log_size),
     omega |-> FPow(Generator, Pow2(TwoAdicity - log_size))]

\* Radix2Group::element_inv_at(i): the inverse of the i-th element omega^i
element_inv_at(group, i) == FInverse(FPow(group.omega, i))

\* evaluation of a coefficient vector at x (Horner)
RECURSIVE EvalPoly(_, _, _)
EvalPoly(coeffs, k, x) ==
    IF k = VLen(coeffs) THEN 0
    ELSE FAdd(coeffs[k], FMul(x, EvalPoly(coeffs, k + 1, x)))

\* Radix2Group::fft: the evaluations of the polynomial on the group, in
\* the order of the group's elements
fft(group, coeffs) ==
    [i \in 0..(group.size - 1) |-> EvalPoly(coeffs, 0, FPow(group.omega, i))]

\* ------------------------------------------------- util::merkle_tree

\* serialized width of one element of the scaled-down field
SerWidth == 2

\* fixed-width little-endian bytes of one field element
RECURSIVE SerializeField(_, _)
SerializeField(x, w) ==
    IF w = 0 THEN <<>> ELSE <<x % 256>> \o SerializeField(x \div 256, w - 1)

\* Serialize::serialize_fields: the concatenated bytes of the elements
RECURSIVE serialize_fields(_)
serialize_fields(fs) ==
    IF fs = <<>> THEN <<>>
    ELSE SerializeField(Head(fs), SerWidth) \o serialize_fields(Tail(fs))

\* MerkleTreeProver::new(leaves); the tree is represented by its leaves
MerkleTreeProver(leaves) == [leaves |-> leaves]

MerkleLeaveNum(mt) == VLen(mt.leaves)

\* MerkleTreeProver::commit: a collision-free digest of the leaves
MerkleCommit(mt) == mt.leaves

\* MerkleTreeProver::open: the authentication data of the opened indices;
\* with the opened leaves it determines the root of the tree it was made from
MerkleOpen(mt, leaf_indices) == [indices |-> leaf_indices, root |-> MerkleCommit(mt)]

\* MerkleTreeVerifier::new(leave_number, root)
MerkleTreeVerifier(leave_number, root) ==
    [leave_number |-> leave_number, root |-> root]

\* MerkleTreeVerifier::verify(proof, indices, leaves): the proof was made
\* for these indices, the root recomputed from an opened leaf and its path
\* is the verifier's root, and the claimed leaves are the committed ones
\* (the commitment is binding).  Nothing is recomputed for an empty opening
MerkleVerify(mv, paths, leaf_indices, leaves) ==
    /\ paths.indices = leaf_indices
    /\ leaf_indices # <<>> => paths.root = mv.root
    /\ \A k \in 1..Len(leaf_indices) :
          /\ leaf_indices[k] \in DOMAIN mv.root
          /\ leaves[k] = mv.root[leaf_indices[k]]

\* ------------------------------------------------------------ Vec helpers

EmptyVec == <<>>

\* Vec::push
Push(v, x) == [k \in 0..VLen(v) |-> IF k < VLen(v) THEN v[k] ELSE x]

\* Option::None of an Option<Fr>
None == -1

\* ------------------------------------------------------- InterpolateValue

\* InterpolateValue::new with leaf i holding the consecutive values
\* value[leaf_size*i + j]
InterpolateValue_new_RowMajor(value, leaf_size) ==
    LET len == VLen(value) \div leaf_size
    IN [value |-> value,
        leaf_size |-> leaf_size,
        merkle_tree |-> MerkleTreeProver(
            [i \in 0..(len - 1) |->
                serialize_fields([j \in 1..leaf_size |-> value[leaf_size * i + (j - 1)]])])]

\* InterpolateValue::new(value, leaf_size): leaf i holds value[len*j + i]
\* for every lane j
InterpolateValue_new(value, leaf_size) ==
    LET len == VLen(value) \div leaf_size
    IN [value |-> value,
        leaf_size |-> leaf_size,
        merkle_tree |-> MerkleTreeProver(
            [i \in 0..(len - 1) |->
                serialize_fields([j \in 1..leaf_size |-> value[len * (j - 1) + i]])])]

\* InterpolateValue::leave_num
InterpolateValue_leave_num(iv) == MerkleLeaveNum(iv.merkle_tree)

\* InterpolateValue::commit
InterpolateValue_commit(iv) == MerkleCommit(iv.merkle_tree)

\* the flat indices query reads: j + i*len for every lane i and index j
QueryKeys(leaf_indices, leaf_size, len) ==
    {leaf_indices[k] + i * len : k \in 1..Len(leaf_indices), i \in 0..(leaf_size - 1)}

\* InterpolateValue::query panics: the assert_eq on the length, or
\* self.value[j + i*len] out of bounds
query_panics(iv, leaf_indices) ==
    LET len == InterpolateValue_leave_num(iv)
    IN \/ len * iv.leaf_size # VLen(iv.value)
       \/ \E k \in QueryKeys(leaf_indices, iv.leaf_size, len) : k \notin DOMAIN iv.value

\* how a panicking query fails
query_failure(iv, leaf_indices) ==
    IF InterpolateValue_leave_num(iv) * iv.leaf_size # VLen(iv.value)
    THEN "assert" ELSE "out_of_range"

\* query opening the first lane only
query_FirstLane(iv, leaf_indices) ==
    LET len == InterpolateValue_leave_num(iv)
    IN [paths |-> MerkleOpen(iv.merkle_tree, leaf_indices),
        values |-> [k \in QueryKeys(leaf_indices, 1, len) |-> iv.value[k]]]

\* InterpolateValue::query: the opened values by flat index, and the paths
query(iv, leaf_indices) ==
    LET len == InterpolateValue_leave_num(iv)
    IN [paths |-> MerkleOpen(iv.merkle_tree, leaf_indices),
        values |-> [k \in QueryKeys(leaf_indices, iv.leaf_size, len) |-> iv.value[k]]]

\* ------------------------------------------------------------ IoppCommits

IoppCommits_new(merkle_roots, final_value) ==
    [merkle_roots |-> merkle_roots, final_value |-> final_value]

\* IoppCommits::proof_size
proof_size(commits) == VLen(commits.merkle_roots) * HashSize + FrSize

\* ----------------------------------------------------------------- Prover

\* the fold of one pair: sum + challenge * ((x - nx) * inv - sum)
FoldPair(x, nx, inv, challenge) ==
    LET sum == FAdd(x, nx)
    IN FAdd(sum, FMul(challenge, FSub(FMul(FSub(x, nx), inv), sum)))

\* evaluate_next_domain without the factor element_inv_at(i)
evaluate_next_domain_NoTwiddle(last_interpolation, group, inv_2, challenge) ==
    LET len == group.size
    IN [i \in 0..((len \div 2) - 1) |->
          FMul(FoldPair(last_interpolation[i], last_interpolation[i + len \div 2],
                        1, challenge),
               inv_2)]

\* evaluate_next_domain without the multiplication by inv_2
evaluate_next_domain_NoHalving(last_interpolation, group, inv_2, challenge) ==
    LET len == group.size
    IN [i \in 0..((len \div 2) - 1) |->
          FoldPair(last_interpolation[i], last_interpolation[i + len \div 2],
                   element_inv_at(group, i), challenge)]

\* Prover::evaluate_next_domain
evaluate_next_domain(last_interpolation, group, inv_2, challenge) ==
    LET len == group.size
    IN [i \in 0..((len \div 2) - 1) |->
          FMul(FoldPair(last_interpolation[i], last_interpolation[i + len \div 2],
                        element_inv_at(group, i), challenge),
               inv_2)]

\* Prover::new(polies, group)
Prover_new(polies, group) ==
    LET n == group.size
        evals == [m \in DOMAIN polies |-> fft(group, polies[m])]
        value == [k \in 0..(VLen(polies) * n - 1) |-> evals[k \div n][k % n]]
    IN [interpolation |-> InterpolateValue_new(value, VLen(polies) * 2),
        poly_num |-> VLen(polies),
        log_degree |-> ilog2(VLen(polies[0]))]

\* Prover::commit
Prover_commit(self) == InterpolateValue_commit(self.interpolation)

\* the inner loop of the batching: v[i] = v[i] * challenges.0 + value[j],
\* j = i, i + len, ...
RECURSIVE BatchAt(_, _, _, _, _, _)
BatchAt(value, c0, len, j, left, acc) ==
    IF left = 0 THEN acc
    ELSE BatchAt(value, c0, len, j + len, left - 1, FAdd(FMul(acc, c0), value[j]))

\* the batching with the Horner accumulator started at one instead of zero
poly_interpolations_AccOne(self, groups, challenges) ==
    LET len == groups[0].size
    IN [i \in 0..(len - 1) |->
          BatchAt(self.interpolation.value, challenges.c0, len, i, self.poly_num, 1)]

\* poly_interpolations of commit_phase
poly_interpolations(self, groups, challenges) ==
    LET len == groups[0].size
    IN [i \in 0..(len - 1) |->
          BatchAt(self.interpolation.value, challenges.c0, len, i, self.poly_num, 0)]

\* the fold loop committing to the last round's vector as well
RECURSIVE CommitLoop_CommitLast(_, _, _, _, _, _, _)
CommitLoop_CommitLast(i, self, groups, challenges, batched, interpolations, final_value) ==
    IF i >= self.log_degree
    THEN [interpolations |-> interpolations, final_value |-> final_value]
    ELSE LET next_evaluation ==
                 evaluate_next_domain(
                     IF i = 0 THEN batched ELSE interpolations[i - 1].value,
                     groups[i], FInverse(2), challenges.c1[i])
         IN CommitLoop_CommitLast(i + 1, self, groups, challenges, batched,
                Push(interpolations, InterpolateValue_new(next_evaluation, 2)),
                IF i < self.log_degree - 1 THEN final_value ELSE next_evaluation[0])

\* the fold loop of commit_phase, from round i on
RECURSIVE CommitLoop(_, _, _, _, _, _, _)
CommitLoop(i, self, groups, challenges, batched, interpolations, final_value) ==
    IF i >= self.log_degree
    THEN [interpolations |-> interpolations, final_value |-> final_value]
    ELSE LET next_evaluation ==
                 evaluate_next_domain(
                     IF i = 0 THEN batched ELSE interpolations[i - 1].value,
                     groups[i], FInverse(2), challenges.c1[i])
         IN IF i < self.log_degree - 1
            THEN CommitLoop(i + 1, self, groups, challenges, batched,
                            Push(interpolations, InterpolateValue_new(next_evaluation, 2)),
                            final_value)
            ELSE CommitLoop(i + 1, self, groups, challenges, batched,
                            interpolations, next_evaluation[0])

\* Prover::commit_phase: (IoppProverState, IoppCommits)
commit_phase(self, groups, challenges) ==
    LET r == CommitLoop(0, self, groups, challenges,
                        poly_interpolations(self, groups, challenges), EmptyVec, None)
    IN [state |-> [interpolations |-> r.interpolations],
        commits |-> IoppCommits_new(
            [k \in DOMAIN r.interpolations |-> InterpolateValue_commit(r.interpolations[k])],
            r.final_value)]

\* v & (domain_size - 1) for every index, then sort and dedup.  At
\* domain_size = 0 a build without overflow checks wraps domain_size - 1 to
\* usize::MAX, a mask of all ones that keeps every index as it is
SampleReduce(leaf_indices, domain_size) ==
    SortDedup([k \in 1..Len(leaf_indices) |->
                  IF domain_size = 0 THEN leaf_indices[k]
                  ELSE BitAnd(leaf_indices[k], domain_size - 1)])

\* every round of sample querying the base layer
SampleLayer_BaseOnly(self, prover_state, i) == self.interpolation

\* the layer round i of sample queries
SampleLayer(self, prover_state, i) ==
    IF i = 0 THEN self.interpolation ELSE prover_state.interpolations[i - 1]

\* the loop of sample from round i on.  panic records how the call ended
\* early: "overflow" is the panic of domain_size - 1 at domain_size = 0 in a
\* build with overflow checks, "assert" the assert_eq of query, and
\* "out_of_range" the index out of bounds of self.value[j + i*len] in query
RECURSIVE SampleLoop(_, _, _, _, _, _, _)
SampleLoop(i, self, prover_state, leaf_indices, domain_size, overflow_checks, query_results) ==
    IF i >= self.log_degree
    THEN [panicked |-> FALSE, panic |-> "none", query_results |-> query_results]
    ELSE LET ds == domain_size \div 2
             li == SampleReduce(leaf_indices, ds)
             layer == SampleLayer(self, prover_state, i)
         IN IF ds = 0 /\ overflow_checks
            THEN [panicked |-> TRUE, panic |-> "overflow", query_results |-> query_results]
            ELSE IF query_panics(layer, li)
            THEN [panicked |-> TRUE, panic |-> query_failure(layer, li),
                  query_results |-> query_results]
            ELSE SampleLoop(i + 1, self, prover_state, li, ds, overflow_checks,
                            Push(query_results, query(layer, li)))

\* Prover::sample, in a build with (debug) or without (release) overflow checks
sample(self, prover_state, leaf_indices, domain_size, overflow_checks) ==
    SampleLoop(0, self, prover_state, leaf_indices, domain_size, overflow_checks, EmptyVec)

\* ------------------------------------------------------------ QueryResult

\* verify_merkle_tree without the assert!(res), returning true
verify_merkle_tree_NoAssert(self, leaf_indices, leaf_size, merkle_verifier) ==
    LET len == merkle_verifier.leave_number
    IN IF \E k \in QueryKeys(leaf_indices, leaf_size, len) : k \notin DOMAIN self.values
       THEN "unwrap"
       ELSE "true"

\* QueryResult::verify_merkle_tree.  "unwrap" when values.get(..).unwrap()
\* meets a missing key (line 32), "assert" when assert!(res) fails
\* (line 38), "true" when it returns true
verify_merkle_tree(self, leaf_indices, leaf_size, merkle_verifier) ==
    LET len == merkle_verifier.leave_number
    IN IF \E k \in QueryKeys(leaf_indices, leaf_size, len) : k \notin DOMAIN self.values
       THEN "unwrap"
       ELSE LET leaves ==
                    [k \in 1..Len(leaf_indices) |->
                        serialize_fields(
                            [j \in 1..leaf_size |->
                                self.values[leaf_indices[k] + (j - 1) * len]])]
                res == MerkleVerify(merkle_verifier, self.paths, leaf_indices, leaves)
            IN IF res THEN "true" ELSE "assert"

\* --------------------------------------------------------------- Verifier

\* Verifier::new(merkle_root, poly_num, leave_number)
Verifier_new(merkle_root, poly_num, leave_number) ==
    [mt_verifier |-> MerkleTreeVerifier(leave_number, merkle_root),
     poly_num |-> poly_num]

\* mt_verifiers with the leaf count halved after the checker is built
RECURSIVE MtVerifiers_HalveAfter(_, _, _, _)
MtVerifiers_HalveAfter(merkle_roots, k, leave_num, v) ==
    IF k >= VLen(merkle_roots) THEN v
    ELSE MtVerifiers_HalveAfter(merkle_roots, k + 1, leave_num \div 2,
                                Push(v, MerkleTreeVerifier(leave_num, merkle_roots[k])))

\* mt_verifiers of verify: one checker per round root, the leaf count
\* halved at every root
RECURSIVE MtVerifiers(_, _, _, _)
MtVerifiers(merkle_roots, k, leave_num, v) ==
    IF k >= VLen(merkle_roots) THEN v
    ELSE MtVerifiers(merkle_roots, k + 1, leave_num \div 2,
                     Push(v, MerkleTreeVerifier(leave_num \div 2, merkle_roots[k])))

\* the reduction of verify modulo len instead of len >> 1
VerifyReduce_FullDomain(leaf_indices, len) ==
    SortDedup([k \in 1..Len(leaf_indices) |-> leaf_indices[k] % len])

\* leaf_indices of round i of verify: reduced, sorted, deduplicated
VerifyReduce(leaf_indices, len) ==
    SortDedup([k \in 1..Len(leaf_indices) |-> leaf_indices[k] % (len \div 2)])

\* the keys the computation of new_v reads for index j in round i
FoldKeys(poly_num, i, j, len) ==
    IF i = 0
    THEN {j + m * len : m \in 0..(poly_num - 1)}
            \cup {j + m * len + len \div 2 : m \in 0..(poly_num - 1)}
    ELSE {j, j + len \div 2}

\* the round-0 loop multiplying the fold of lane k, not the running value,
\* by the batch challenge: res = res + challenges.0 * fold
RECURSIVE FoldRound0_ScaleTerm(_, _, _, _, _, _, _, _)
FoldRound0_ScaleTerm(values, c0, c1, inv, len, k, left, res) ==
    IF left = 0 THEN res
    ELSE FoldRound0_ScaleTerm(values, c0, c1, inv, len, k + len, left - 1,
                              FAdd(res,
                                   FMul(c0, FoldPair(values[k], values[k + len \div 2],
                                                     inv, c1))))

\* the Horner loop of round 0: res = res * challenges.0 + fold of lane k
RECURSIVE FoldRound0(_, _, _, _, _, _, _, _)
FoldRound0(values, c0, c1, inv, len, k, left, res) ==
    IF left = 0 THEN res
    ELSE FoldRound0(values, c0, c1, inv, len, k + len, left - 1,
                    FAdd(FMul(res, c0),
                         FoldPair(values[k], values[k + len \div 2], inv, c1)))

\* new_v of verify for index j in round i
NewV(poly_num, groups, challenges, query_results, i, j) ==
    LET len == groups[i].size
    IN IF i = 0
       THEN FoldRound0(query_results[0].values, challenges.c0, challenges.c1[0],
                       element_inv_at(groups[0], j), len, j, poly_num, 0)
       ELSE FoldPair(query_results[i].values[j], query_results[i].values[j + len \div 2],
                     element_inv_at(groups[i], j), challenges.c1[i])

\* the outcome of a call of verify: how it ended, the failure met, the round
\* and index of the failing check, and the checks performed in order
Outcome(ended, failure, round, index, log) ==
    [ended |-> ended, failure |-> failure, round |-> round, index |-> index, log |-> log]

\* the loop over the indices with new_v compared to the next value itself,
\* not to its double
RECURSIVE FoldChecks_NoDouble(_, _, _, _, _, _, _, _, _)
FoldChecks_NoDouble(poly_num, groups, challenges, commits, query_results, i, leaf_indices, k, log) ==
    IF k > Len(leaf_indices) THEN Outcome("passed", "none", i, None, log)
    ELSE LET j == leaf_indices[k]
             len == groups[i].size
             log_degree == VLen(challenges.c1)
             log2 == Append(log, <<"fold", i, j>>)
         IN IF \E key \in FoldKeys(poly_num, i, j, len) : key \notin DOMAIN query_results[i].values
            THEN Outcome("panicked", "IndexOutOfRange", i, j, log2)
            ELSE IF i < log_degree - 1 /\ j \notin DOMAIN query_results[i + 1].values
            THEN Outcome("panicked", "IndexOutOfRange", i, j, log2)
            ELSE LET new_v == NewV(poly_num, groups, challenges, query_results, i, j)
                     expected == IF i < log_degree - 1
                                 THEN query_results[i + 1].values[j]
                                 ELSE commits.final_value
                 IN IF new_v # expected
                    THEN Outcome("panicked", "ProofInvalid", i, j, log2)
                    ELSE FoldChecks_NoDouble(poly_num, groups, challenges, commits,
                                             query_results, i, leaf_indices, k + 1, log2)

\* the loop over the indices without the comparison of the last round with
\* the final value
RECURSIVE FoldChecks_SkipFinal(_, _, _, _, _, _, _, _, _)
FoldChecks_SkipFinal(poly_num, groups, challenges, commits, query_results, i, leaf_indices, k, log) ==
    IF k > Len(leaf_indices) THEN Outcome("passed", "none", i, None, log)
    ELSE LET j == leaf_indices[k]
             len == groups[i].size
             log_degree == VLen(challenges.c1)
             log2 == Append(log, <<"fold", i, j>>)
         IN IF \E key \in FoldKeys(poly_num, i, j, len) : key \notin DOMAIN query_results[i].values
            THEN Outcome("panicked", "IndexOutOfRange", i, j, log2)
            ELSE IF i < log_degree - 1 /\ j \notin DOMAIN query_results[i + 1].values
            THEN Outcome("panicked", "IndexOutOfRange", i, j, log2)
            ELSE LET new_v == NewV(poly_num, groups, challenges, query_results, i, j)
                 IN IF i < log_degree - 1
                       /\ new_v # FDouble(query_results[i + 1].values[j])
                    THEN Outcome("panicked", "ProofInvalid", i, j, log2)
                    ELSE FoldChecks_SkipFinal(poly_num, groups, challenges, commits,
                                              query_results, i, leaf_indices, k + 1, log2)

\* the loop over the indices of round i, from position k of leaf_indices on.
\* A missing key ends the call in a panic (unwrap on None, or HashMap index),
\* an unequal comparison in a panic of assert_eq; "passed" continues the round
RECURSIVE FoldChecks(_, _, _, _, _, _, _, _, _)
FoldChecks(poly_num, groups, challenges, commits, query_results, i, leaf_indices, k, log) ==
    IF k > Len(leaf_indices) THEN Outcome("passed", "none", i, None, log)
    ELSE LET j == leaf_indices[k]
             len == groups[i].size
             log_degree == VLen(challenges.c1)
             log2 == Append(log, <<"fold", i, j>>)
         IN IF \E key \in FoldKeys(poly_num, i, j, len) : key \notin DOMAIN query_results[i].values
            THEN Outcome("panicked", "IndexOutOfRange", i, j, log2)
            ELSE IF i < log_degree - 1 /\ j \notin DOMAIN query_results[i + 1].values
            THEN Outcome("panicked", "IndexOutOfRange", i, j, log2)
            ELSE LET new_v == NewV(poly_num, groups, challenges, query_results, i, j)
                     expected == IF i < log_degree - 1
                                 THEN FDouble(query_results[i + 1].values[j])
                                 ELSE FDouble(commits.final_value)
                 IN IF new_v # expected
                    THEN Outcome("panicked", "ProofInvalid", i, j, log2)
                    ELSE FoldChecks(poly_num, groups, challenges, commits, query_results,
                                    i, leaf_indices, k + 1, log2)

\* the loop over the rounds running the fold comparisons of a round before
\* the Merkle check of its opening
RECURSIVE VerifyLoop_FoldsFirst(_, _, _, _, _, _, _, _, _)
VerifyLoop_FoldsFirst(self, mt_verifiers, groups, challenges, commits, query_results, i, leaf_indices, log) ==
    IF i >= VLen(challenges.c1) THEN Outcome("returned", "none", i, None, log)
    ELSE LET len == groups[i].size
             li == VerifyReduce(leaf_indices, len)
             f == FoldChecks(self.poly_num, groups, challenges, commits,
                             query_results, i, li, 1, log)
             log2 == Append(f.log, <<"merkle", i>>)
             mt == verify_merkle_tree(
                       query_results[i], li,
                       IF i = 0 THEN self.poly_num * 2 ELSE 2,
                       IF i = 0 THEN self.mt_verifier ELSE mt_verifiers[i - 1])
         IN IF f.ended = "panicked" THEN f
            ELSE IF mt = "unwrap" THEN Outcome("panicked", "IndexOutOfRange", i, None, log2)
            ELSE IF mt = "assert" THEN Outcome("panicked", "MerkleProofInvalid", i, None, log2)
            ELSE VerifyLoop_FoldsFirst(self, mt_verifiers, groups, challenges, commits,
                                       query_results, i + 1, li, log2)

\* the loop over the rounds of verify, from round i on
RECURSIVE VerifyLoop(_, _, _, _, _, _, _, _, _)
VerifyLoop(self, mt_verifiers, groups, challenges, commits, query_results, i, leaf_indices, log) ==
    IF i >= VLen(challenges.c1) THEN Outcome("returned", "none", i, None, log)
    ELSE LET len == groups[i].size
             li == VerifyReduce(leaf_indices, len)
             log2 == Append(log, <<"merkle", i>>)
             mt == verify_merkle_tree(
                       query_results[i], li,
                       IF i = 0 THEN self.poly_num * 2 ELSE 2,
                       IF i = 0 THEN self.mt_verifier ELSE mt_verifiers[i - 1])
         IN IF mt = "unwrap" THEN Outcome("panicked", "IndexOutOfRange", i, None, log2)
            ELSE IF mt = "assert" THEN Outcome("panicked", "MerkleProofInvalid", i, None, log2)
            ELSE LET f == FoldChecks(self.poly_num, groups, challenges, commits,
                                     query_results, i, li, 1, log2)
                 IN IF f.ended = "panicked" THEN f
                    ELSE VerifyLoop(self, mt_verifiers, groups, challenges, commits,
                                    query_results, i + 1, li, f.log)

\* Verifier::verify
verify(self, groups, challenges, leaf_indices, iopp_commits, query_results) ==
    VerifyLoop(self,
               MtVerifiers(iopp_commits.merkle_roots, 0, self.mt_verifier.leave_number, EmptyVec),
               groups, challenges, iopp_commits, query_results, 0, leaf_indices, <<>>)

\* ------------------------------------------------------------ the inputs

\* coefficient j of polynomial m of the polynomial set of a seed
Coef(seed, m, j) ==
    (seed * (j * j * j + 5 * j + 11 * m + 3) + seed * seed * (j + 1) * (m + 2)) % P

\* polies: poly_num coefficient vectors of length 2^log_degree
Polies(seed, poly_num, log_degree) ==
    [m \in 0..(poly_num - 1) |->
        [j \in 0..(Pow2(log_degree) - 1) |-> Coef(seed, m, j)]]

\* groups: Radix2Group::new(x + 1 + coderate) for x = log_degree-1 down to 0
Groups(log_degree, coderate) ==
    [i \in 0..(log_degree - 1) |-> Radix2Group(log_degree - i + coderate)]

\* challenges: (batch challenge, one fold challenge per round)
Challenges(cseed, log_degree) ==
    [c0 |-> (38 * cseed * cseed + 220 * cseed) % P,
     c1 |-> [i \in 0..(log_degree - 1) |->
                IF cseed = 0 THEN i % 2
                ELSE (37 * cseed + 101 * i + cseed * i * i) % P]]

\* ------------------------------------------------- the delivered transcript

\* what reaches the verifier: the challenges it uses, the commitments and
\* the openings
Transcript(ch, commits, openings) ==
    [challenges |-> ch, commits |-> commits, query_results |-> openings]

\* the non-zero amounts added to a value that is changed
TamperDeltas == {1, 100}

\* one opened value of the opening of a round changed
TamperValue(t, r, key, delta) ==
    [t EXCEPT !.query_results[r].values[key] = FAdd(@, delta)]

\* one key removed from the opening of a round
TamperDrop(t, r, key) ==
    [t EXCEPT !.query_results[r].values =
        [k \in (DOMAIN @) \ {key} |-> @[k]]]

\* the verifier's fold challenge of one round differs from the prover's
TamperChallenge(t, i) ==
    [t EXCEPT !.challenges.c1[i] = FAdd(@, 1)]

\* one round root replaced by the root of another tree
TamperRoot(t, k) ==
    [t EXCEPT !.commits.merkle_roots[k][0][1] = (@ + 1) % 256]

\* the final value changed
TamperFinal(t) ==
    [t EXCEPT !.commits.final_value = FAdd(@, 1)]

NoTamper == [kind |-> "none", round |-> None, key |-> None]

\* a call of sample: the domain_size it is given, whether the build checks
\* arithmetic overflow (debug) or wraps (release), and the number of calls of
\* sample made on this prover state, this one included
SampleCall(domain_size, overflow_checks, calls) ==
    [domain_size |-> domain_size, overflow_checks |-> overflow_checks, calls |-> calls]

\* ------------------------------------------------------------------ state

VARIABLES
    pc,             \* the position in the session of it_works
    polies,         \* the input polynomials
    groups,         \* the evaluation domains, one per round
    prover,         \* Prover: interpolation, poly_num, log_degree
    challenges,     \* the challenges commit_phase was run with
    prover_state,   \* IoppProverState returned by commit_phase
    iopp_commits,   \* IoppCommits returned by commit_phase
    leaf_indices,   \* the sampled indices given to sample and to verify
    query_results,  \* the openings returned by sample
    sample_call,    \* the last call of sample: its domain_size, the build's
                    \* overflow checks, and the number of calls so far
    tamper,         \* what was changed between sample and verify
    transcript,     \* the challenges, commitments and openings verify receives
    result          \* how verify ended

vars == <<pc, polies, groups, prover, challenges, prover_state, iopp_commits,
          leaf_indices, query_results, sample_call, tamper, transcript, result>>

Unset == <<>>

Init ==
    /\ pc = "start"
    /\ polies = Unset
    /\ groups = Unset
    /\ prover = Unset
    /\ challenges = Unset
    /\ prover_state = Unset
    /\ iopp_commits = Unset
    /\ leaf_indices = Unset
    /\ query_results = Unset
    /\ sample_call = Unset
    /\ tamper = NoTamper
    /\ transcript = Unset
    /\ result = Unset

\* let prover = Prover::new(&polies, &groups[0])
Construct ==
    /\ pc = "start"
    /\ \E log_degree \in 1..MaxLogDegree, poly_num \in 1..MaxPolyNum,
          coderate \in Coderates, seed \in PolySeeds :
          /\ polies' = Polies(seed, poly_num, log_degree)
          /\ groups' = Groups(log_degree, coderate)
          /\ prover' = Prover_new(polies', groups'[0])
    /\ pc' = "constructed"
    /\ UNCHANGED <<challenges, prover_state, iopp_commits, leaf_indices,
                   query_results, sample_call, tamper, transcript, result>>

\* let (prover_state, iopp_commits) = prover.commit_phase(&groups, &challenges)
CommitPhase ==
    /\ pc = "constructed"
    /\ \E cseed \in ChallengeSeeds :
          /\ challenges' = Challenges(cseed, prover.log_degree)
          /\ LET r == commit_phase(prover, groups, challenges')
             IN /\ prover_state' = r.state
                /\ iopp_commits' = r.commits
    /\ pc' = "committed"
    /\ UNCHANGED <<polies, groups, prover, leaf_indices, query_results, sample_call,
                   tamper, transcript, result>>

\* let query_results = prover.sample(&prover_state, leaf_indices.clone(), domain size)
Sample ==
    /\ pc = "committed"
    /\ \E li \in IndexLists :
          /\ leaf_indices' = li
          /\ sample_call' = SampleCall(groups[0].size, TRUE, 1)
          /\ LET r == sample(prover, prover_state, li, groups[0].size, TRUE)
             IN /\ query_results' = r.query_results
                /\ pc' = IF r.panicked THEN "sample_panicked" ELSE "sampled"
    /\ UNCHANGED <<polies, groups, prover, challenges, prover_state, iopp_commits,
                   tamper, transcript, result>>

Honest == Transcript(challenges, iopp_commits, query_results)

\* the transcript reaches the verifier unchanged
DeliverHonest ==
    /\ pc = "sampled"
    /\ tamper' = NoTamper
    /\ transcript' = Honest
    /\ pc' = "delivered"
    /\ UNCHANGED <<polies, groups, prover, challenges, prover_state, iopp_commits,
                   leaf_indices, query_results, sample_call, result>>

\* one opened value is changed on the way
DeliverValue ==
    /\ pc = "sampled"
    /\ \E r \in DOMAIN query_results : \E key \in DOMAIN query_results[r].values :
       \E delta \in TamperDeltas :
          /\ tamper' = [kind |-> "value", round |-> r, key |-> key, delta |-> delta]
          /\ transcript' = TamperValue(Honest, r, key, delta)
    /\ pc' = "delivered"
    /\ UNCHANGED <<polies, groups, prover, challenges, prover_state, iopp_commits,
                   leaf_indices, query_results, sample_call, result>>

\* one opened value is left out on the way
DeliverDrop ==
    /\ pc = "sampled"
    /\ \E r \in DOMAIN query_results : \E key \in DOMAIN query_results[r].values :
          /\ tamper' = [kind |-> "drop", round |-> r, key |-> key]
          /\ transcript' = TamperDrop(Honest, r, key)
    /\ pc' = "delivered"
    /\ UNCHANGED <<polies, groups, prover, challenges, prover_state, iopp_commits,
                   leaf_indices, query_results, sample_call, result>>

\* the verifier runs with a fold challenge that differs at one round
DeliverChallenge ==
    /\ pc = "sampled"
    /\ \E i \in DOMAIN challenges.c1 :
          /\ tamper' = [kind |-> "challenge", round |-> i, key |-> None]
          /\ transcript' = TamperChallenge(Honest, i)
    /\ pc' = "delivered"
    /\ UNCHANGED <<polies, groups, prover, challenges, prover_state, iopp_commits,
                   leaf_indices, query_results, sample_call, result>>

\* one round root or the final value is changed on the way
DeliverCommits ==
    /\ pc = "sampled"
    /\ \/ \E k \in DOMAIN iopp_commits.merkle_roots :
             /\ tamper' = [kind |-> "root", round |-> k + 1, key |-> None]
             /\ transcript' = TamperRoot(Honest, k)
       \/ /\ tamper' = [kind |-> "final", round |-> None, key |-> None]
          /\ transcript' = TamperFinal(Honest)
    /\ pc' = "delivered"
    /\ UNCHANGED <<polies, groups, prover, challenges, prover_state, iopp_commits,
                   leaf_indices, query_results, sample_call, result>>

\* let verifier = Verifier::new(commit, poly_num, domain size / 2)
TheVerifier == Verifier_new(Prover_commit(prover), prover.poly_num, groups[0].size \div 2)

\* verifier.verify(&groups, &challenges, leaf_indices, iopp_commits, query_results)
Verify ==
    /\ pc = "delivered"
    /\ result' = verify(TheVerifier, groups, transcript.challenges, leaf_indices,
                        transcript.commits, transcript.query_results)
    /\ pc' = "done"
    /\ UNCHANGED <<polies, groups, prover, challenges, prover_state, iopp_commits,
                   leaf_indices, query_results, sample_call, tamper, transcript>>

Next ==
    \/ Construct
    \/ CommitPhase
    \/ Sample
    \/ DeliverHonest
    \/ DeliverValue
    \/ DeliverDrop
    \/ DeliverChallenge
    \/ DeliverCommits
    \/ Verify

Spec == Init /\ [][Next]_vars

\* ----------------------------------------------------------------- claims

Done == pc = "done"

Committed == pc = "committed"

\* the set of the original indices taken modulo half the domain of round i
ReducedSet(i) == {leaf_indices[k] % (groups[i].size \div 2) : k \in 1..Len(leaf_indices)}

NonZeroPolies == \E m \in DOMAIN polies : \E j \in DOMAIN polies[m] : polies[m][j] # 0

\* C1 (completeness): the transcript of an honest prover (Prover::new,
\* commit_phase, sample with domain_size = domains[0].size()) is accepted by
\* verify run with the same domains, challenges and indices: verify returns
\* after its last round, and no Merkle check and no fold comparison fails.
C1_Completeness ==
    Done /\ tamper.kind = "none" =>
        /\ result.ended = "returned"
        /\ result.failure = "none"
        /\ result.round = prover.log_degree

\* an accepted honest run of two non-zero polynomials over three rounds whose
\* indices lie beyond the domain size and collapse to one reduced index
C1_Witness ==
    /\ Done /\ tamper.kind = "none" /\ result.ended = "returned"
    /\ prover.poly_num = 2 /\ prover.log_degree = 3 /\ NonZeroPolies
    /\ \E k \in 1..Len(leaf_indices) : leaf_indices[k] >= groups[0].size
    /\ Len(leaf_indices) > Cardinality(ReducedSet(0))

\* C2 (failures are reported): every verification failure met inside verify
\* (a Merkle proof that does not verify, a fold comparison that does not
\* hold, an opening that lacks a needed index) ends the call with a reported
\* reject outcome; none aborts the process.
C2_FailuresAreReported ==
    Done /\ result.failure # "none" => result.ended = "rejected"

\* the scenario of C3: one polynomial, logDegree 3, base domain of size 16,
\* five sampled indices in [0, 16), one opened value of openings[1] changed
C3_Scenario ==
    /\ Done
    /\ prover.poly_num = 1 /\ prover.log_degree = 3 /\ groups[0].size = 16
    /\ Len(leaf_indices) = 5
    /\ \A k \in 1..Len(leaf_indices) : leaf_indices[k] < 16
    /\ tamper.kind = "value" /\ tamper.round = 1

\* C3 as stated: in the scenario, whichever opened value of openings[1] was
\* changed, verify fails with the Merkle-proof failure.
C3_AlwaysMerkleFailure ==
    C3_Scenario => result.ended # "returned" /\ result.failure = "MerkleProofInvalid"

\* C3 amended: in the scenario verify never accepts; when the changed value
\* sits at a reduced index of round 0 the failure is the fold comparison of
\* round 0 at that index (which reads openings[1] before its Merkle check),
\* otherwise it is the Merkle check of round 1.
C3_TamperedRound1Rejected ==
    C3_Scenario =>
        /\ result.ended # "returned"
        /\ IF tamper.key \in ReducedSet(0)
           THEN result.failure = "ProofInvalid" /\ result.round = 0
                    /\ result.index = tamper.key
           ELSE result.failure = "MerkleProofInvalid" /\ result.round = 1

\* the scenario with the changed value outside the reduced indices of round 0
C3_Witness ==
    C3_Scenario /\ tamper.key \notin ReducedSet(0)
        /\ result.failure = "MerkleProofInvalid"

\* the least element of a non-empty set of numbers
Least(S) == CHOOSE x \in S : \A y \in S : x <= y

\* the value a fold comparison of round i at index j compares new_v with
Expected(t, i, j) ==
    IF i < VLen(t.challenges.c1) - 1
    THEN FDouble(t.query_results[i + 1].values[j])
    ELSE FDouble(t.commits.final_value)

\* the surviving indices of round i at which new_v under the verifier's
\* challenges differs from new_v under the prover's
Differing(i) ==
    {j \in ReducedSet(i) :
        NewV(prover.poly_num, groups, transcript.challenges, query_results, i, j)
            # NewV(prover.poly_num, groups, challenges, query_results, i, j)}

\* C4 (fold soundness): when the verifier's fold challenges differ from the
\* prover's at round i only and the transcript is otherwise honest, then
\* at every surviving index of round i where the fold value differs under the
\* two challenges the comparison of round i does not hold, and, if there is
\* such an index, verify ends at round i with the fold-consistency failure
\* at the first of them: rounds 0..i-1 and the Merkle check of round i pass.
C4_FoldSoundness ==
    Done /\ tamper.kind = "challenge" =>
        LET i == tamper.round
        IN /\ \A j \in Differing(i) :
                 NewV(prover.poly_num, groups, transcript.challenges,
                      transcript.query_results, i, j) # Expected(transcript, i, j)
           /\ Differing(i) # {} =>
                 /\ result.ended # "returned"
                 /\ result.failure = "ProofInvalid"
                 /\ result.round = i
                 /\ result.index = Least(Differing(i))
                 /\ result.log[Len(result.log)] = <<"fold", i, result.index>>
                 /\ \E k \in 1..Len(result.log) : result.log[k] = <<"merkle", i>>

\* a desynchronised challenge at a round after the first, with two surviving
\* indices whose fold values differ
C4_Witness ==
    /\ Done /\ tamper.kind = "challenge" /\ tamper.round >= 1
    /\ Cardinality(Differing(tamper.round)) >= 2
    /\ result.failure = "ProofInvalid" /\ result.round = tamper.round

\* the increasing sequence of the elements of a finite set of numbers
RECURSIVE SortedSeqOf(_)
SortedSeqOf(S) ==
    IF S = {} THEN <<>> ELSE <<Least(S)>> \o SortedSeqOf(S \ {Least(S)})

\* the indices the prover queried in round i of sample (those given to open)
ProverIndices(i) == query_results[i].paths.indices

\* the indices verify went through in round i: its fold comparisons, in order
VerifierIndices(i) ==
    LET sel == SelectSeq(result.log, LAMBDA e : e[1] = "fold" /\ e[2] = i)
    IN [k \in 1..Len(sel) |-> sel[k][3]]

\* the list sample holds after round i: domain_size halved and the list
\* masked, sorted and deduplicated in every round up to i
RECURSIVE SampleListAt(_, _, _)
SampleListAt(li, domain_size, i) ==
    IF i = 0 THEN SampleReduce(li, domain_size \div 2)
    ELSE SampleReduce(SampleListAt(li, domain_size, i - 1), domain_size \div Pow2(i + 1))

\* the list verify holds after round i: reduced modulo groups[k].size()/2,
\* sorted and deduplicated in every round k up to i
RECURSIVE VerifyListAt(_, _)
VerifyListAt(li, i) ==
    IF i = 0 THEN VerifyReduce(li, groups[0].size)
    ELSE VerifyReduce(VerifyListAt(li, i - 1), groups[i].size)

\* C5 (index reduction consistency): in every round i the index list the
\* prover queried in sample (idx & (domain_size - 1), sorted, deduplicated,
\* cumulatively) is the list verify uses (idx % (domains[i].size()/2), sorted,
\* deduplicated, cumulatively), and both are the increasing sequence of the
\* original indices taken modulo domains[i].size()/2.  This is checked on
\* the lists of an honest run of sample and verify, and, for the domains of
\* every commitment, on the two reductions applied to every pair of indices.
C5_IndexReductionConsistent ==
    /\ Done /\ tamper.kind = "none" =>
          \A i \in 0..(prover.log_degree - 1) :
              /\ ProverIndices(i) = VerifierIndices(i)
              /\ ProverIndices(i) = SortedSeqOf(ReducedSet(i))
    /\ Committed =>
          \A a, b \in 0..MaxPairIndex : \A i \in 0..(prover.log_degree - 1) :
              /\ SampleListAt(<<a, b>>, groups[0].size, i) = VerifyListAt(<<a, b>>, i)
              /\ SampleListAt(<<a, b>>, groups[0].size, i)
                    = SortedSeqOf({a % (groups[i].size \div 2), b % (groups[i].size \div 2)})

\* a three-round run whose indices lie beyond the domain and whose reduced
\* list shrinks from round to round
C5_Witness ==
    /\ Done /\ tamper.kind = "none" /\ prover.log_degree = 3
    /\ \E k \in 1..Len(leaf_indices) : leaf_indices[k] >= groups[0].size
    /\ Len(ProverIndices(2)) < Len(ProverIndices(1))
    /\ Len(ProverIndices(1)) < Len(ProverIndices(0))
    /\ Len(ProverIndices(0)) < Len(leaf_indices)
    /\ ProverIndices(2) = VerifierIndices(2)

LastRound == prover.log_degree - 1

\* the opening of every position of a layer
FullOpening(layer) ==
    query(layer, [k \in 1..InterpolateValue_leave_num(layer) |-> k - 1])

\* new_v of the last round at position p, recomputed as verify does from the
\* layer the last round opens
RecomputedLast(p) ==
    NewV(prover.poly_num, groups, challenges,
         [r \in {LastRound} |-> FullOpening(SampleLayer(prover, prover_state, LastRound))],
         LastRound, p)

\* C6 (doubling invariant): for an honest prover the fold value recomputed
\* from the last layer at every position p in [0, domains[logDegree-1].size()/2)
\* is exactly twice the committed final value.
C6_DoublingInvariant ==
    Committed =>
        \A p \in 0..((groups[LastRound].size \div 2) - 1) :
            RecomputedLast(p) = FDouble(iopp_commits.final_value)

\* a commitment over at least two rounds with a non-zero final value and at
\* least two positions in the last round
C6_Witness ==
    /\ Committed /\ prover.log_degree >= 2 /\ prover.poly_num = 2
    /\ groups[LastRound].size \div 2 >= 2
    /\ iopp_commits.final_value # 0
    /\ RecomputedLast(1) = FDouble(iopp_commits.final_value)

Delivered == pc = "delivered"

\* the checker of a layer: its leaf count and its root
LayerVerifier(layer) ==
    MerkleTreeVerifier(InterpolateValue_leave_num(layer), InterpolateValue_commit(layer))

\* verify_merkle_tree of the delivered opening of round r against layer r
LayerCheck(r) ==
    LET layer == SampleLayer(prover, prover_state, r)
    IN verify_merkle_tree(transcript.query_results[r], ProverIndices(r),
                          layer.leaf_size, LayerVerifier(layer))

\* the delivered opening of round r agrees with layer r at every flat index
\* j + k*n of the requested indices j and lanes k
OpeningEqualsLayer(r) ==
    LET layer == SampleLayer(prover, prover_state, r)
        n == InterpolateValue_leave_num(layer)
    IN \A key \in QueryKeys(ProverIndices(r), layer.leaf_size, n) :
          /\ key \in DOMAIN transcript.query_results[r].values
          /\ transcript.query_results[r].values[key] = layer.value[key]

\* C7 (commitment binding): for every layer built by InterpolateValue::new
\* (lane width 2*polyCount or 2) and the index list of its round (all below
\* the leaf count), verify_merkle_tree against the layer's root succeeds
\* exactly when the opening equals the layer's values at the flat indices
\* j + k*n; the opening returned by query succeeds, and changing one of the
\* opened values makes it fail.
C7_CommitmentBinding ==
    Delivered /\ tamper.kind # "drop" =>
        \A r \in DOMAIN query_results :
            /\ \A k \in 1..Len(ProverIndices(r)) :
                  ProverIndices(r)[k]
                      < InterpolateValue_leave_num(SampleLayer(prover, prover_state, r))
            /\ (LayerCheck(r) = "true") <=> OpeningEqualsLayer(r)
            /\ verify_merkle_tree(query_results[r], ProverIndices(r),
                   SampleLayer(prover, prover_state, r).leaf_size,
                   LayerVerifier(SampleLayer(prover, prover_state, r))) = "true"
            /\ tamper.kind = "value" /\ tamper.round = r => LayerCheck(r) = "assert"

\* an opening of the base layer of two polynomials (four lanes) at two or
\* more indices with one value of a later lane changed, which fails
C7_Witness ==
    /\ Delivered /\ tamper.kind = "value" /\ tamper.round = 0
    /\ prover.poly_num = 2 /\ prover.log_degree >= 2 /\ Len(ProverIndices(0)) >= 2
    /\ tamper.key >= 2 * InterpolateValue_leave_num(prover.interpolation)
    /\ LayerCheck(0) = "assert"
    /\ LayerCheck(1) = "true"

Sampled == pc = "sampled"

\* the lane width of the layer of round r
Lanes(r) == IF r = 0 THEN 2 * prover.poly_num ELSE 2

\* C8 (opening contents): the opening of round r returned by sample holds
\* exactly the flat indices j + k*(domains[r].size()/2) of the reduced
\* indices j of round r and the lanes k; so it holds the pair of every reduced
\* index and every key verify reads: j + m*domains[0].size() and its pair for
\* each polynomial m in round 0, j and its pair in later rounds, and the
\* index j of round r in the opening of round r+1.
C8_OpeningContents ==
    Sampled =>
        \A r \in 0..(prover.log_degree - 1) :
            LET half == groups[r].size \div 2
                keys == DOMAIN query_results[r].values
            IN /\ keys = {j + k * half : j \in ReducedSet(r), k \in 0..(Lanes(r) - 1)}
               /\ \A j \in ReducedSet(r) :
                     /\ j + half \in keys
                     /\ FoldKeys(prover.poly_num, r, j, groups[r].size) \subseteq keys
                     /\ r = 0 =>
                           \A m \in 0..(prover.poly_num - 1) :
                               /\ j + m * groups[0].size \in keys
                               /\ j + m * groups[0].size + half \in keys
                     /\ r < prover.log_degree - 1 =>
                           j \in DOMAIN query_results[r + 1].values

\* openings of three rounds for two polynomials and several indices
C8_Witness ==
    /\ Sampled /\ prover.log_degree = 3 /\ prover.poly_num = 2
    /\ Cardinality(ReducedSet(0)) >= 3
    /\ Cardinality(DOMAIN query_results[0].values) = 4 * Cardinality(ReducedSet(0))
    /\ Cardinality(DOMAIN query_results[2].values) = 2 * Cardinality(ReducedSet(2))

\* the leaf count of the base layer
BaseLeaves == InterpolateValue_leave_num(prover.interpolation)

\* C9 (layer halving): the k-th committed fold layer holds
\* domains[k].size()/2 values in 2 lanes, its leaf count is the base layer's
\* divided by 2^(k+1), half that of the layer before it, and it is the leaf
\* count of the checker verify rebuilds from root k.
C9_LayerHalving ==
    Committed =>
        /\ VLen(prover_state.interpolations) = prover.log_degree - 1
        /\ \A k \in DOMAIN prover_state.interpolations :
              LET layer == prover_state.interpolations[k]
                  before == IF k = 0 THEN prover.interpolation
                            ELSE prover_state.interpolations[k - 1]
              IN /\ VLen(layer.value) = groups[k].size \div 2
                 /\ layer.leaf_size = 2
                 /\ InterpolateValue_leave_num(layer) * Pow2(k + 1) = BaseLeaves
                 /\ 2 * InterpolateValue_leave_num(layer) = InterpolateValue_leave_num(before)
                 /\ MtVerifiers(iopp_commits.merkle_roots, 0,
                                TheVerifier.mt_verifier.leave_number, EmptyVec)[k].leave_number
                        = InterpolateValue_leave_num(layer)

\* a commitment with two fold layers
C9_Witness ==
    /\ Committed /\ prover.log_degree = 3
    /\ VLen(prover_state.interpolations) = 2
    /\ InterpolateValue_leave_num(prover_state.interpolations[1]) * 4 = BaseLeaves

\* C10 (size accounting): the commitments of commit_phase hold logDegree-1
\* round roots and one final scalar, and their proof_size is
\* 32*(logDegree-1) + W, W the byte width of a field element.
C10_SizeAccounting ==
    Committed =>
        /\ VLen(iopp_commits.merkle_roots) = prover.log_degree - 1
        /\ iopp_commits.final_value \in Fr
        /\ proof_size(iopp_commits) = 32 * (prover.log_degree - 1) + FrSize

\* commitments of one round (no root) and of three rounds (two roots)
C10_Witness ==
    /\ Committed /\ prover.log_degree = 3
    /\ proof_size(iopp_commits) = 64 + FrSize

\* ---------------------------------------------- the batching runs (SpecBatch)

\* Prover::new with up to BatchMaxPolyNum polynomials
ConstructBatch ==
    /\ pc = "start"
    /\ \E log_degree \in 1..MaxLogDegree, poly_num \in 1..BatchMaxPolyNum,
          coderate \in Coderates, seed \in PolySeeds :
          /\ polies' = Polies(seed, poly_num, log_degree)
          /\ groups' = Groups(log_degree, coderate)
          /\ prover' = Prover_new(polies', groups'[0])
    /\ pc' = "constructed"
    /\ UNCHANGED <<challenges, prover_state, iopp_commits, leaf_indices,
                   query_results, sample_call, tamper, transcript, result>>

\* Prover::commit_phase with any batch challenge of the field
CommitPhaseBatch ==
    /\ pc = "constructed"
    /\ \E b \in Fr, cseed \in ChallengeSeeds :
          /\ challenges' = [c0 |-> b, c1 |-> Challenges(cseed, prover.log_degree).c1]
          /\ LET r == commit_phase(prover, groups, challenges')
             IN /\ prover_state' = r.state
                /\ iopp_commits' = r.commits
    /\ pc' = "committed"
    /\ UNCHANGED <<polies, groups, prover, leaf_indices, query_results, sample_call,
                   tamper, transcript, result>>

NextBatch == ConstructBatch \/ CommitPhaseBatch

SpecBatch == Init /\ [][NextBatch]_vars

\* every coefficient of every polynomial is zero
ZeroPolies ==
    \A m \in 0..(prover.poly_num - 1) :
        \A j \in 0..(VLen(polies[m]) - 1) : polies[m][j] = 0

\* the batched round-0 vector the prover folds
Batched == poly_interpolations(prover, groups, challenges)

\* C11 (zero batching): when every one of the polynomials is the zero
\* polynomial, whatever the batch challenge and the fold challenges, the
\* batched round-0 vector is zero at every position, every folded layer is
\* zero at every position, and the final value is zero.
C11_ZeroBatching ==
    (Committed /\ ZeroPolies) =>
        /\ \A j \in 0..(groups[0].size - 1) : Batched[j] = 0
        /\ \A k \in 0..(VLen(prover_state.interpolations) - 1) :
              \A j \in 0..(VLen(prover_state.interpolations[k].value) - 1) :
                  prover_state.interpolations[k].value[j] = 0
        /\ iopp_commits.final_value = 0

\* four zero polynomials of degree bound 8 committed under a non-zero batch
\* challenge and non-zero fold challenges
C11_Witness ==
    /\ Committed
    /\ ZeroPolies
    /\ prover.poly_num = 4
    /\ prover.log_degree = MaxLogDegree
    /\ challenges.c0 > 1
    /\ \A i \in 0..(prover.log_degree - 1) : challenges.c1[i] > 1
    /\ VLen(prover_state.interpolations) = prover.log_degree - 1

\* the first folded layer as the prover computes it: the stored layer 0, or
\* with a single round the vector whose position 0 becomes the final value
FirstFolded ==
    IF prover.log_degree >= 2
    THEN prover_state.interpolations[0].value
    ELSE evaluate_next_domain(Batched, groups[0], FInverse(2), challenges.c1[0])

\* new_v of round 0 at position j, computed as verify does from the opened
\* base layer
VerifierRound0(j) ==
    NewV(prover.poly_num, groups, challenges,
         [r \in {0} |-> FullOpening(prover.interpolation)], 0, j)

\* C12 (batch and fold commute in round 0): for every number of polynomials,
\* base-layer values, batch challenge and fold challenge, at every position j
\* in [0, size/2) the verifier's round-0 value (each polynomial's pair folded
\* with the fold challenge and the inverse domain element at j, then Horner
\* over the batch challenge, polynomial 0 first) is exactly twice the value
\* of the prover's first folded layer at j.
C12_BatchFoldCommute ==
    Committed =>
        /\ \A j \in 0..((groups[0].size \div 2) - 1) :
              VerifierRound0(j) = FDouble(FirstFolded[j])
        /\ prover.log_degree = 1 => FirstFolded[0] = iopp_commits.final_value

\* four non-zero polynomials batched under a challenge b > 1 and folded
\* under a challenge c > 1 into a stored layer that is not constant
C12_Witness ==
    /\ Committed
    /\ prover.poly_num = 4
    /\ prover.log_degree = MaxLogDegree
    /\ challenges.c0 > 1
    /\ challenges.c1[0] > 1
    /\ \A m \in 0..3 : \E j \in 0..(VLen(polies[m]) - 1) : polies[m][j] # 0
    /\ FirstFolded[0] # FirstFolded[1]
    /\ VerifierRound0(1) = FDouble(FirstFolded[1])
    /\ VerifierRound0(1) # 0

\* the checks of round r in the order of the claim: the Merkle check of the
\* round's opening, then one fold comparison per index of the round's list
RoundChecks(r) ==
    LET li == VerifyListAt(leaf_indices, r)
    IN <<(<<"merkle", r>>)>> \o [k \in 1..Len(li) |-> <<"fold", r, li[k]>>]

\* the checks of rounds r, r+1, ..., logDegree - 1, in order
RECURSIVE ChecksFrom(_)
ChecksFrom(r) ==
    IF r >= prover.log_degree THEN <<>> ELSE RoundChecks(r) \o ChecksFrom(r + 1)

\* the Merkle check of the delivered opening of round r, on its own
MerklePasses(r) ==
    LET mt_verifiers == MtVerifiers(transcript.commits.merkle_roots, 0,
                                    TheVerifier.mt_verifier.leave_number, EmptyVec)
    IN verify_merkle_tree(transcript.query_results[r], VerifyListAt(leaf_indices, r),
                          IF r = 0 THEN prover.poly_num * 2 ELSE 2,
                          IF r = 0 THEN TheVerifier.mt_verifier ELSE mt_verifiers[r - 1])
          = "true"

\* the fold comparison of round r at index j, on its own
FoldPasses(r, j) ==
    /\ \A key \in FoldKeys(prover.poly_num, r, j, groups[r].size) :
          key \in DOMAIN transcript.query_results[r].values
    /\ r < prover.log_degree - 1 => j \in DOMAIN transcript.query_results[r + 1].values
    /\ NewV(prover.poly_num, groups, transcript.challenges, transcript.query_results, r, j)
          = Expected(transcript, r, j)

CheckPasses(e) == IF e[1] = "merkle" THEN MerklePasses(e[2]) ELSE FoldPasses(e[2], e[3])

\* C13 (check ordering in verify): the checks verify performs are an initial
\* part of the list that goes through the rounds 0, 1, ..., logDegree - 1 in
\* increasing order, with in each round the Merkle check of that round's
\* opening first and then the fold comparisons in the increasing order of the
\* round's reduced indices; every check before the last performed one passes;
\* a call that ends in a failure ends at a failing check, the first one; a
\* call returns success only after every check of the list was performed and
\* passed.
C13_CheckOrdering ==
    Done =>
        LET log == result.log
            all == ChecksFrom(0)
        IN /\ Len(log) <= Len(all)
           /\ \A k \in 1..Len(log) : log[k] = all[k]
           /\ \A r \in 0..(prover.log_degree - 1) :
                 LET li == VerifyListAt(leaf_indices, r)
                 IN \A k \in 1..(Len(li) - 1) : li[k] < li[k + 1]
           /\ \A k \in 1..(Len(log) - 1) : CheckPasses(log[k])
           /\ result.ended \in {"returned", "panicked"}
           /\ result.ended = "returned" =>
                 /\ log = all
                 /\ CheckPasses(log[Len(log)])
           /\ result.ended = "panicked" =>
                 /\ ~CheckPasses(log[Len(log)])
                 /\ result.round = log[Len(log)][2]
                 /\ log[Len(log)][1] = "fold" => result.index = log[Len(log)][3]

\* a call that passes the Merkle check and at least two fold comparisons of
\* round 0 and the Merkle check of round 1, and ends at a failing fold
\* comparison of round 1 that is not the last check of the list
C13_Witness ==
    /\ Done
    /\ result.ended = "panicked"
    /\ result.failure = "ProofInvalid"
    /\ result.round = 1
    /\ Len(VerifyListAt(leaf_indices, 0)) >= 2
    /\ Len(result.log) >= 5
    /\ Len(result.log) < Len(ChecksFrom(0))
    /\ result.log[1] = <<"merkle", 0>>
    /\ result.log[Len(result.log) - 1][1] \in {"merkle", "fold"}

\* ------------------------------------------- repeated sampling (SpecRetain)

\* a further call of Prover::sample on the same prover and prover state,
\* after an earlier call or after the verification of an earlier call; the
\* new openings have not been handed to verify yet
SampleAgain ==
    /\ pc \in {"sampled", "done"}
    /\ sample_call.calls < MaxSampleCalls
    /\ \E li \in IndexLists :
          /\ leaf_indices' = li
          /\ sample_call' = SampleCall(groups[0].size, TRUE, sample_call.calls + 1)
          /\ LET r == sample(prover, prover_state, li, groups[0].size, TRUE)
             IN /\ query_results' = r.query_results
                /\ pc' = IF r.panicked THEN "sample_panicked" ELSE "sampled"
    /\ tamper' = NoTamper
    /\ transcript' = Unset
    /\ result' = Unset
    /\ UNCHANGED <<polies, groups, prover, challenges, prover_state, iopp_commits>>

NextRetain ==
    Construct \/ CommitPhase \/ Sample \/ SampleAgain \/ DeliverHonest \/ Verify

SpecRetain == Init /\ [][NextRetain]_vars

\* the layer the openings of round r come from
RetainedLayer(r) ==
    IF r = 0 THEN prover.interpolation ELSE prover_state.interpolations[r - 1]

\* after every call of sample: the call returned logDegree openings, the
\* opening of round r is the query of layer r at the round's reduced indices,
\* and the verified result is accepted with the commitments of the one
\* commit_phase
RetainedState ==
    /\ pc # "sample_panicked"
    /\ pc \in {"sampled", "delivered"} =>
          /\ VLen(query_results) = prover.log_degree
          /\ \A r \in 0..(prover.log_degree - 1) :
                query_results[r] =
                    query(RetainedLayer(r),
                          SampleListAt(leaf_indices, groups[0].size, r))
    /\ pc = "delivered" => transcript.commits = iopp_commits
    /\ Done => result.ended = "returned"

\* no step changes the prover once built, nor the prover state and the
\* commitments once commit_phase has returned
RetainedStep ==
    /\ prover # Unset => prover' = prover
    /\ prover_state # Unset => (prover_state' = prover_state /\ iopp_commits' = iopp_commits)

\* C14 (layer retention): commit_phase leaves the base layer unchanged and
\* sample leaves the base layer and every round layer unchanged; after one
\* commit_phase every call of sample, whatever the calls before it and its
\* index list, answers against the same layers, returns exactly logDegree
\* openings (round 0 from the base layer, round r >= 1 from round layer
\* r - 1), and its result is accepted by verify with the same commitments.
C14_LayerRetention == []RetainedState /\ [][RetainedStep]_vars

\* the openings of a second call of sample on the same prover state, over
\* three rounds and at least two indices, accepted by verify
C14_Witness ==
    /\ Done
    /\ sample_call.calls = 2
    /\ prover.log_degree = MaxLogDegree
    /\ Len(leaf_indices) >= 2
    /\ VLen(query_results) = prover.log_degree
    /\ result.ended = "returned"
    /\ NonZeroPolies

\* ------------------------------- sampling at any domain size (SpecSample)

\* the domain_size arguments tried on a base domain of size n: none, one,
\* half, one short, the base size, one more, and twice the base size
SampleDomainSizes(n) == {0, 1, n \div 2, n - 1, n, n + 1, 2 * n}

\* Prover::sample called with any domain_size, in either build
SampleAny ==
    /\ pc = "committed"
    /\ \E li \in IndexLists, domain_size \in SampleDomainSizes(groups[0].size),
          overflow_checks \in BOOLEAN :
          /\ leaf_indices' = li
          /\ sample_call' = SampleCall(domain_size, overflow_checks, 1)
          /\ LET r == sample(prover, prover_state, li, domain_size, overflow_checks)
             IN /\ query_results' = r.query_results
                /\ pc' = IF r.panicked THEN "sample_panicked" ELSE "sampled"
    /\ UNCHANGED <<polies, groups, prover, challenges, prover_state, iopp_commits,
                   tamper, transcript, result>>

NextSample == Construct \/ CommitPhase \/ SampleAny

SpecSample == Init /\ [][NextSample]_vars

\* the call of sample made, and how it ended
SampleCalled == pc \in {"sampled", "sample_panicked"}
SampleOutcome ==
    sample(prover, prover_state, leaf_indices, sample_call.domain_size,
           sample_call.overflow_checks)

\* query on every layer and every index list: it fails, out of range and
\* with no opening, exactly when an index is at or beyond the leaf count,
\* and otherwise returns the opening of the requested indices
QueryRange ==
    \A r \in 0..(prover.log_degree - 1), li \in IndexLists :
        LET layer == RetainedLayer(r)
            n == InterpolateValue_leave_num(layer)
        IN /\ query_panics(layer, li) <=> (\E k \in 1..Len(li) : li[k] >= n)
           /\ query_panics(layer, li) => query_failure(layer, li) = "out_of_range"
           /\ ~query_panics(layer, li) =>
                 /\ query(layer, li).paths.indices = li
                 /\ DOMAIN query(layer, li).values = QueryKeys(li, layer.leaf_size, n)

\* sample fails out of range only at a domain_size above the base domain size
SampleFailsOnlyAbove ==
    SampleOutcome.panic = "out_of_range" => sample_call.domain_size > groups[0].size

\* sample at the base domain size returns its openings
SampleAtBaseSize ==
    sample_call.domain_size = groups[0].size =>
        (pc = "sampled" /\ ~SampleOutcome.panicked
            /\ VLen(query_results) = prover.log_degree)

\* C15 (out-of-range queries): query on a layer of leaf count n fails, out of
\* range and with no opening, whenever a requested index is >= n, and returns
\* an opening whenever every index is < n; sample fails in this way only when
\* its domain_size exceeds the base domain size, and never when domain_size
\* is domains[0].size().
C15_OutOfRange ==
    SampleCalled => (QueryRange /\ SampleFailsOnlyAbove /\ SampleAtBaseSize)

\* C15, the part met by both builds: the statement about query, and sample
\* at the base domain size; a build with overflow checks also fails out of
\* range only above the base domain size
C15_QueryAndBaseSize ==
    SampleCalled =>
        /\ QueryRange
        /\ SampleAtBaseSize
        /\ sample_call.overflow_checks => SampleFailsOnlyAbove

\* the one item of the honest transcript that was changed: an opened value,
\* a round root or the final value
OneItemChanged == tamper.kind \in {"value", "root", "final"}

\* C16 (tamper rejection): for an honest transcript over a non-empty index
\* list and a binding commitment, changing exactly one item (one opened value
\* at a flat index of the opening of any round, one round root, or the final
\* value) makes verify fail at a Merkle check or at a fold comparison; verify
\* never accepts the changed transcript.
C16_TamperRejection ==
    (Done /\ OneItemChanged /\ leaf_indices # <<>>) =>
        /\ result.ended = "panicked"
        /\ result.failure \in {"MerkleProofInvalid", "ProofInvalid"}
        /\ result.log # <<>>
        /\ result.log[Len(result.log)][1] \in {"merkle", "fold"}

\* a changed root of the last round layer, of which leaf 0 is not opened,
\* met by the Merkle check of the last of three rounds after the checks of
\* the rounds before it passed
C16_Witness ==
    /\ Done
    /\ tamper.kind = "root"
    /\ prover.log_degree = MaxLogDegree
    /\ tamper.round = prover.log_degree - 1
    /\ leaf_indices # <<>>
    /\ \A k \in 1..Len(leaf_indices) :
          leaf_indices[k] % (groups[tamper.round].size \div 2) # 0
    /\ result.ended = "panicked"
    /\ result.failure = "MerkleProofInvalid"
    /\ result.round = tamper.round

====
